---- MODULE Spec2Model ----
(***************************************************************************)
(* Model of downstream/quesst14/expert.py: DownstreamExpert.forward (the    *)
(* accumulation of features and names), DownstreamExpert.log_records       *)
(* (all-pairs DTW matching on a process pool, score threshold, detection   *)
(* report) and the module-level function match.                            *)
(*                                                                         *)
(* Scores and costs are fixed-point numbers counted in units of 0.00001;   *)
(* the report's score attribute, printed with four decimals, is counted in *)
(* units of 0.0001.  Names are sequences of one-character strings.         *)
(***************************************************************************)
EXTENDS Integers, Sequences, FiniteSets, TLC

VARIABLES
    batches,        \* the batches forward has been given so far, in order
    records,        \* records: the lists records["features"], ["audio_names"]
    n_queries,      \* self.test_dataset.n_queries
    num_workers,    \* self.datarc["num_workers"]
    pc,             \* "forward" until log_records is called, then its position
    futures,        \* the list `futures`, with each future's pool-side state
    broken,         \* the pool lost a worker process (BrokenProcessPool)
    snapshot,       \* as_completed: futures already finished when it started
    waiter,         \* as_completed: futures finished since, in completion order
    completion,     \* indices of the futures in the order they finished
    yielded,        \* indices of the futures as_completed has yielded so far
    results,        \* the defaultdict `results`, in key insertion order
    scores,         \* the list `scores`
    score_thresh,   \* score_thresh (line 105); NoValue until assigned
    score_min,      \* score_min (line 106); NoValue until assigned
    root,           \* the XML tree: a sequence of detected_termlist elements
    written,        \* benchmark.stdlist.xml: NoFile, or <<tree>> once written
    raised          \* the exception that left log_records, or NoError

vars == <<batches, records, n_queries, num_workers, pc, futures, broken, snapshot, waiter,
          completion, yielded, results, scores, score_thresh, score_min, root,
          written, raised>>

-----------------------------------------------------------------------------
(* Bounds of the model *)

MaxRecords == 3
MaxWorkers == 2
MaxScores == 102
MaxBatch == 2

-----------------------------------------------------------------------------
(* Values *)

NoValue == "NoValue"
NoFile  == <<>>
NoError == "NoError"

WAV == <<".", "w", "a", "v">>

\* Candidate records: a name and a feature sequence (frames of dimension 1).
Items ==
    { [name |-> <<"a", ".", "w", "a", "v">>, feature |-> <<0>>],
      [name |-> <<"a">>,                     feature |-> <<3>>],
      [name |-> <<"b", ".", "w", "a", "v">>, feature |-> <<0, 20000>>],
      [name |-> <<"e", ".", "w", "a", "v">>, feature |-> <<>>] }

RECURSIVE SeqsUpTo(_, _)
SeqsUpTo(S, n) ==
    IF n = 0 THEN { <<>> }
    ELSE LET shorter == SeqsUpTo(S, n - 1)
         IN  shorter \cup { Append(s, x) : s \in shorter, x \in S }

Min(a, b) == IF a <= b THEN a ELSE b
Abs(a) == IF a < 0 THEN -a ELSE a

-----------------------------------------------------------------------------
(* str.replace(".wav", ""): every non-overlapping occurrence, left to right *)

RECURSIVE StripWav(_)
StripWav(s) ==
    IF Len(s) < Len(WAV) THEN s
    ELSE IF SubSeq(s, 1, Len(WAV)) = WAV
         THEN StripWav(SubSeq(s, Len(WAV) + 1, Len(s)))
         ELSE <<Head(s)>> \o StripWav(Tail(s))

-----------------------------------------------------------------------------
(* segmental_dtw: subsequence DTW, the query consumed from its first to    *)
(* its last frame, the document's start and end free.                      *)

InvalidInput == "InvalidInput"

RECURSIVE Dtw(_, _, _, _)
Dtw(query, doc, i, j) ==
    LET d == Abs(query[i] - doc[j])
    IN  IF i = 1 THEN d
        ELSE IF j = 1 THEN d + Dtw(query, doc, i - 1, j)
        ELSE d + Min(Dtw(query, doc, i - 1, j),
                     Min(Dtw(query, doc, i, j - 1),
                         Dtw(query, doc, i - 1, j - 1)))

RECURSIVE MinOver(_, _, _)
MinOver(query, doc, j) ==
    IF j = 1 THEN Dtw(query, doc, Len(query), 1)
    ELSE Min(Dtw(query, doc, Len(query), j), MinOver(query, doc, j - 1))

segmental_dtw(query, doc) ==
    IF Len(query) = 0 \/ Len(doc) = 0
    THEN [ok |-> FALSE, exc |-> InvalidInput]
    ELSE [ok |-> TRUE, cost |-> MinOver(query, doc, Len(doc))]

\* match (lines 146-148): the outcome a future is completed with.
match(query, doc, query_name, doc_name) ==
    LET r == segmental_dtw(query, doc)
    IN  IF r.ok
        THEN [ok |-> TRUE, query_name |-> query_name, doc_name |-> doc_name,
              score |-> (-1) * r.cost]
        ELSE [ok |-> FALSE, exc |-> r.exc]

-----------------------------------------------------------------------------
(* The slices of lines 77-80 *)

\* Mutant: the start of the slice is ignored.
Slice_FromStart(s, lo, hi) == SubSeq(s, 1, Min(hi, Len(s)))
Slice(s, lo, hi) == SubSeq(s, lo + 1, Min(hi, Len(s)))

queries == Slice(records.features, 0, n_queries)
\* Mutant: the documents slice starts one position late.
docs_SkipOne == Slice(records.features, n_queries + 1, Len(records.features))
docs    == Slice(records.features, n_queries, Len(records.features))
query_names == Slice(records.audio_names, 0, n_queries)
doc_names   == Slice(records.audio_names, n_queries, Len(records.audio_names))

\* zip(xs, ys): the pairs <<xs[k], ys[k]>>, up to the end of the shorter list.
zip(xs, ys) == [k \in 1..Min(Len(xs), Len(ys)) |-> <<xs[k], ys[k]>>]

NPairs == Len(zip(queries, query_names)) * Len(zip(docs, doc_names))

\* The pair the nested loops of lines 88-94 submit k-th (k from 1).
PairQ(k) == ((k - 1) \div Len(zip(docs, doc_names))) + 1
\* Mutant: the inner loop never advances past the first document.
PairD_FirstOnly(k) == 1
PairD(k) == ((k - 1) % Len(zip(docs, doc_names))) + 1

-----------------------------------------------------------------------------
(* sorted(scores): ascending and stable.  Each element goes to the place   *)
(* given by the number of elements that come before it.                    *)

\* Mutant: the scores are left in arrival order.
sorted_Unsorted(s) == s
Place(s, i) ==
    Cardinality({ j \in 1..Len(s) : s[j] < s[i] \/ (s[j] = s[i] /\ j < i) }) + 1

\* Mutant: the scores are sorted in descending order.
sorted_Descending(s) ==
    [k \in 1..Len(s) |-> s[CHOOSE i \in 1..Len(s) : Place(s, i) = Len(s) + 1 - k]]

sorted(s) ==
    [k \in 1..Len(s) |-> s[CHOOSE i \in 1..Len(s) : Place(s, i) = k]]

\* int(0.99 * n) of line 105, as a 0-based index.
\* Mutant: the last (largest) element is taken.
ThreshIndex_Last(n) == n - 1
ThreshIndex(n) == (99 * n) \div 100

\* f"{x:.4f}": x in units of 0.00001, the result in units of 0.0001.
Format4(x) == IF x >= 0 THEN (x + 5) \div 10 ELSE -((-x + 5) \div 10)

-----------------------------------------------------------------------------
(* The pool *)

Pending  == "pending"
Running  == "running"
Finished == "finished"

BrokenProcessPool == "BrokenProcessPool"
IndexError == "IndexError"

\* The outcome of a future that is not finished yet.
NoOutcome == [ok |-> FALSE, exc |-> NoValue]

FutIdx == 1..Len(futures)

NRunning == Cardinality({ i \in FutIdx : futures[i].state = Running })

AllFinished == \A i \in FutIdx : futures[i].state = Finished

\* The executor exists from line 85 until its __exit__ returns.
ExecutorAlive == pc \in {"submit", "collect", "shutdown"}

\* as_completed is installed: completions are pushed to its waiter.
Waiting == pc = "collect"

-----------------------------------------------------------------------------

\* The batch the data loader makes of a sequence of items.
Batch(items) ==
    [features |-> [k \in 1..Len(items) |-> items[k].feature],
     audio_names |-> [k \in 1..Len(items) |-> items[k].name]]

\* log_records is entered with the records of the whole test set,
\* accumulated from one batch.
Init ==
    /\ \E items \in SeqsUpTo(Items, MaxRecords) :
          /\ records = Batch(items)
          /\ batches = IF items = <<>> THEN <<>> ELSE <<Batch(items)>>
    /\ n_queries \in 0..Len(records.features)
    /\ num_workers \in 1..MaxWorkers
    /\ pc = "submit"
    /\ futures = <<>>
    /\ broken = FALSE
    /\ snapshot = {}
    /\ waiter = <<>>
    /\ completion = <<>>
    /\ yielded = <<>>
    /\ results = <<>>
    /\ scores = <<>>
    /\ score_thresh = NoValue
    /\ score_min = NoValue
    /\ root = <<>>
    /\ written = NoFile
    /\ raised = NoError

\* executor.submit(match, query, doc, query_name, doc_name), lines 88-94.
NewFuture(k) ==
    LET q == zip(queries, query_names)[PairQ(k)]
        d == zip(docs, doc_names)[PairD(k)]
    IN  [qi |-> PairQ(k), di |-> PairD(k),
         query |-> q[1],
         doc |-> d[1],
         query_name |-> StripWav(q[2]),
         doc_name |-> StripWav(d[2]),
         state |-> Pending,
         outcome |-> NoOutcome]

Submit ==
    /\ pc = "submit"
    /\ Len(futures) < NPairs
    /\ IF broken
       THEN /\ pc' = "shutdown"
            /\ raised' = BrokenProcessPool
            /\ UNCHANGED futures
       ELSE /\ futures' = Append(futures, NewFuture(Len(futures) + 1))
            /\ UNCHANGED <<pc, raised>>
    /\ UNCHANGED <<batches, records, n_queries, num_workers, broken, snapshot, waiter,
                   completion, yielded, results, scores, score_thresh, score_min,
                   root, written>>

\* The first next() of as_completed(futures), line 96-97.
StartCollect ==
    /\ pc = "submit"
    /\ Len(futures) = NPairs
    /\ pc' = "collect"
    /\ snapshot' = { i \in FutIdx : futures[i].state = Finished }
    /\ waiter' = <<>>
    /\ UNCHANGED <<batches, records, n_queries, num_workers, futures, broken, completion,
                   yielded, results, scores, score_thresh, score_min, root,
                   written, raised>>

\* A worker process takes the oldest pending work item.
Start(i) ==
    /\ ExecutorAlive
    /\ ~broken
    /\ futures[i].state = Pending
    /\ \A j \in FutIdx : futures[j].state = Pending => i <= j
    /\ NRunning < num_workers
    /\ futures' = [futures EXCEPT ![i].state = Running]
    /\ UNCHANGED <<batches, records, n_queries, num_workers, pc, broken, snapshot, waiter,
                   completion, yielded, results, scores, score_thresh, score_min,
                   root, written, raised>>

\* The worker returns the result of match, or the exception it raised.
Finish(i) ==
    /\ ExecutorAlive
    /\ futures[i].state = Running
    /\ futures' = [futures EXCEPT
                     ![i].state = Finished,
                     ![i].outcome = match(futures[i].query, futures[i].doc,
                                          futures[i].query_name, futures[i].doc_name)]
    /\ completion' = Append(completion, i)
    /\ waiter' = IF Waiting THEN Append(waiter, i) ELSE waiter
    /\ UNCHANGED <<batches, records, n_queries, num_workers, pc, broken, snapshot,
                   yielded, results, scores, score_thresh, score_min, root,
                   written, raised>>

RECURSIVE Unfinished(_)
Unfinished(i) ==
    IF i > Len(futures) THEN <<>>
    ELSE (IF futures[i].state # Finished THEN <<i>> ELSE <<>>) \o Unfinished(i + 1)

\* A worker process dies: the pool is broken and every work item not yet
\* finished fails with BrokenProcessPool.
WorkerLost ==
    /\ ExecutorAlive
    /\ ~broken
    /\ futures # <<>>
    /\ broken' = TRUE
    /\ futures' = [i \in FutIdx |->
                     IF futures[i].state # Finished
                     THEN [futures[i] EXCEPT
                             !.state = Finished,
                             !.outcome = [ok |-> FALSE, exc |-> BrokenProcessPool]]
                     ELSE futures[i]]
    /\ completion' = completion \o Unfinished(1)
    /\ waiter' = IF Waiting THEN waiter \o Unfinished(1) ELSE waiter
    /\ UNCHANGED <<batches, records, n_queries, num_workers, pc, snapshot, yielded,
                   results, scores, score_thresh, score_min, root, written,
                   raised>>

\* results[query_name].append((doc_name, score)) on a defaultdict(list).
HasKey(res, key) == \E k \in 1..Len(res) : res[k].termid = key

\* Mutant: an entry for a key that is not there yet is dropped.
AppendResult_NoCreate(res, key, entry) ==
    [k \in 1..Len(res) |->
        IF res[k].termid = key
        THEN [res[k] EXCEPT !.terms = Append(@, entry)]
        ELSE res[k]]

AppendResult(res, key, entry) ==
    IF HasKey(res, key)
    THEN [k \in 1..Len(res) |->
            IF res[k].termid = key
            THEN [res[k] EXCEPT !.terms = Append(@, entry)]
            ELSE res[k]]
    ELSE Append(res, [termid |-> key, terms |-> <<entry>>])

\* Mutant: the futures finished since the start are yielded before those
\* of the snapshot.
NextYield_WaiterFirst ==
    LET left == snapshot \ { yielded[k] : k \in 1..Len(yielded) }
    IN  IF waiter # <<>> THEN { Head(waiter) }
        ELSE IF left # {} THEN left
        ELSE {}

\* The futures as_completed may yield next: those of the snapshot in any
\* order, then the later ones in completion order.
NextYield ==
    LET left == snapshot \ { yielded[k] : k \in 1..Len(yielded) }
    IN  IF left # {} THEN left
        ELSE IF waiter # <<>> THEN { Head(waiter) }
        ELSE {}

\* Mutant: a failed unit is skipped and the loop goes on.
Collect_SkipFailed(i) ==
    /\ pc = "collect"
    /\ i \in NextYield
    /\ yielded' = Append(yielded, i)
    /\ waiter' = IF i \in snapshot THEN waiter ELSE Tail(waiter)
    /\ IF futures[i].outcome.ok
       THEN /\ results' = AppendResult(results, futures[i].outcome.query_name,
                              <<futures[i].outcome.doc_name, futures[i].outcome.score>>)
            /\ scores' = Append(scores, futures[i].outcome.score)
       ELSE UNCHANGED <<results, scores>>
    /\ UNCHANGED <<batches, records, n_queries, num_workers, pc, futures, broken, snapshot,
                   completion, score_thresh, score_min, root, written, raised>>

\* Mutant: a failed unit is submitted again and the loop goes on.
Collect_Retry(i) ==
    /\ pc = "collect"
    /\ i \in NextYield
    /\ yielded' = Append(yielded, i)
    /\ waiter' = IF i \in snapshot THEN waiter ELSE Tail(waiter)
    /\ IF futures[i].outcome.ok
       THEN /\ results' = AppendResult(results, futures[i].outcome.query_name,
                              <<futures[i].outcome.doc_name, futures[i].outcome.score>>)
            /\ scores' = Append(scores, futures[i].outcome.score)
            /\ UNCHANGED futures
       ELSE /\ futures' = Append(futures, [futures[i] EXCEPT !.state = Pending,
                                                             !.outcome = NoOutcome])
            /\ UNCHANGED <<results, scores>>
    /\ UNCHANGED <<batches, records, n_queries, num_workers, pc, broken, snapshot,
                   completion, score_thresh, score_min, root, written, raised>>

\* One iteration of the loop of lines 96-101.
Collect(i) ==
    /\ pc = "collect"
    /\ i \in NextYield
    /\ yielded' = Append(yielded, i)
    /\ waiter' = IF i \in snapshot THEN waiter ELSE Tail(waiter)
    /\ IF futures[i].outcome.ok
       THEN /\ results' = AppendResult(results, futures[i].outcome.query_name,
                              <<futures[i].outcome.doc_name, futures[i].outcome.score>>)
            /\ scores' = Append(scores, futures[i].outcome.score)
            /\ UNCHANGED <<pc, raised>>
       ELSE /\ pc' = "shutdown"
            /\ raised' = futures[i].outcome.exc
            /\ UNCHANGED <<results, scores>>
    /\ UNCHANGED <<batches, records, n_queries, num_workers, futures, broken, snapshot,
                   completion, score_thresh, score_min, root, written>>

\* as_completed is exhausted; the with block is left with every future done.
EndCollect ==
    /\ pc = "collect"
    /\ Len(yielded) = Len(futures)
    /\ pc' = "threshold"
    /\ UNCHANGED <<batches, records, n_queries, num_workers, futures, broken, snapshot,
                   waiter, completion, yielded, results, scores, score_thresh,
                   score_min, root, written, raised>>

\* Mutant: the exception leaves at once, as with shutdown(wait=False).
ShutdownDone_NoWait ==
    /\ pc = "shutdown"
    /\ pc' = "failed"
    /\ UNCHANGED <<batches, records, n_queries, num_workers, futures, broken, snapshot,
                   waiter, completion, yielded, results, scores, score_thresh,
                   score_min, root, written, raised>>

\* executor.__exit__ on an exception: shutdown(wait=True) returns once
\* every submitted work item is done, then the exception leaves log_records.
ShutdownDone ==
    /\ pc = "shutdown"
    /\ AllFinished
    /\ pc' = "failed"
    /\ UNCHANGED <<batches, records, n_queries, num_workers, futures, broken, snapshot,
                   waiter, completion, yielded, results, scores, score_thresh,
                   score_min, root, written, raised>>

\* Mutant: an empty score list gets a threshold of 0 and the run goes on.
Threshold_DefaultOnEmpty ==
    /\ pc = "threshold"
    /\ scores' = sorted(scores)
    /\ score_thresh' = IF scores' = <<>> THEN 0
                       ELSE scores'[ThreshIndex(Len(scores')) + 1]
    /\ score_min' = IF scores' = <<>> THEN 0 ELSE scores'[1]
    /\ pc' = "build"
    /\ UNCHANGED <<batches, records, n_queries, num_workers, futures, broken, snapshot,
                   waiter, completion, yielded, results, root, written, raised>>

\* Lines 104-106.
Threshold ==
    /\ pc = "threshold"
    /\ scores' = sorted(scores)
    /\ IF scores' = <<>>
       THEN /\ pc' = "failed"
            /\ raised' = IndexError
            /\ UNCHANGED <<score_thresh, score_min>>
       ELSE /\ score_thresh' = scores'[ThreshIndex(Len(scores')) + 1]
            /\ score_min' = scores'[1]
            /\ pc' = "build"
            /\ UNCHANGED raised
    /\ UNCHANGED <<batches, records, n_queries, num_workers, futures, broken, snapshot,
                   waiter, completion, yielded, results, root, written>>

\* Lines 125-135: one term element.
\* Mutant: a score equal to the cutoff is accepted.
Term_NotStrict(doc_name, score) ==
    [file |-> doc_name,
     score |-> Format4(score - score_min),
     decision |-> IF score >= score_thresh THEN "YES" ELSE "NO"]
\* Mutant: the normalized score is compared with the cutoff.
Term_NormalizedCompare(doc_name, score) ==
    [file |-> doc_name,
     score |-> Format4(score - score_min),
     decision |-> IF score - score_min > score_thresh THEN "YES" ELSE "NO"]
Term(doc_name, score) ==
    [file |-> doc_name,
     score |-> Format4(score - score_min),
     decision |-> IF score > score_thresh THEN "YES" ELSE "NO"]

\* Lines 117-135: one detected_termlist element per key of results.
TermList(r) ==
    [termid |-> r.termid,
     terms |-> [k \in 1..Len(r.terms) |-> Term(r.terms[k][1], r.terms[k][2])]]

BuildTree ==
    /\ pc = "build"
    /\ root' = [k \in 1..Len(results) |-> TermList(results[k])]
    /\ pc' = "write"
    /\ UNCHANGED <<batches, records, n_queries, num_workers, futures, broken, snapshot,
                   waiter, completion, yielded, results, scores, score_thresh,
                   score_min, written, raised>>

\* Lines 138-143.
WriteTree ==
    /\ pc = "write"
    /\ written' = <<root>>
    /\ pc' = "done"
    /\ UNCHANGED <<batches, records, n_queries, num_workers, futures, broken, snapshot,
                   waiter, completion, yielded, results, scores, score_thresh,
                   score_min, root, raised>>

Next ==
    \/ Submit
    \/ StartCollect
    \/ \E i \in FutIdx : Start(i)
    \/ \E i \in FutIdx : Finish(i)
    \/ WorkerLost
    \/ \E i \in FutIdx : Collect(i)
    \/ EndCollect
    \/ ShutdownDone
    \/ Threshold
    \/ BuildTree
    \/ WriteTree

Spec == Init /\ [][Next]_vars

-----------------------------------------------------------------------------
(* The threshold and report stage (lines 103-143) on its own: log_records  *)
(* has left the with block with `results` and `scores` collected for one   *)
(* or two queries against many documents.  Only the variables these lines  *)
(* read are given; the pool's variables are left empty.                    *)

Sizes == { n \in 0..MaxScores : n <= 3 \/ n >= MaxScores - 2 }
Peaks == {1, 2, 50}
Slopes == {0, 4, 10, 200000}
Plateaus == {1, 2}

\* The score of the i-th collected MatchResult: the negated cost.
GenScore(i, a, b, p) == (-1) * ((Abs(i - a) \div p) * b)

GenQuery(j) == <<"q", ToString(j)>>
GenDoc(i) == <<"d", ToString(i)>>

\* The i-th MatchResult is of query ((i - 1) % k) + 1 and document
\* ((i - 1) \div k) + 1.
GenResults(n, k, a, b, p) ==
    [j \in 1..(IF n = 0 THEN 0 ELSE k) |->
        [termid |-> GenQuery(j),
         terms |-> [m \in 1..(n \div k) |->
                      <<GenDoc(m), GenScore((m - 1) * k + j, a, b, p)>>]]]

InitT ==
    \E n \in Sizes, k \in 1..2, a \in Peaks, b \in Slopes, p \in Plateaus :
        /\ n % k = 0
        /\ scores = [i \in 1..n |-> GenScore(i, a, b, p)]
        /\ results = GenResults(n, k, a, b, p)
        /\ batches = <<>>
        /\ records = [features |-> <<>>, audio_names |-> <<>>]
        /\ n_queries = 0
        /\ num_workers = 1
        /\ pc = "threshold"
        /\ futures = <<>>
        /\ broken = FALSE
        /\ snapshot = {}
        /\ waiter = <<>>
        /\ completion = <<>>
        /\ yielded = <<>>
        /\ score_thresh = NoValue
        /\ score_min = NoValue
        /\ root = <<>>
        /\ written = NoFile
        /\ raised = NoError

NextT ==
    \/ Threshold
    \/ BuildTree
    \/ WriteTree

SpecT == InitT /\ [][NextT]_vars

-----------------------------------------------------------------------------
(* The accumulation (lines 59-72) followed by the dispatch of log_records  *)
(* (lines 77-94) and the work of the pool: forward is called once for each *)
(* batch of the test set, then log_records is called on the records.       *)

\* feature.detach().cpu().numpy().astype(np.double), line 66: a copy of the
\* frames; every float32 value is kept exactly by float64.
AsDouble(feature) == [t \in 1..Len(feature) |-> feature[t]]

\* Mutant: the name is appended after the loop, once for each batch.
Forward_NameAfterLoop(features, audio_names) ==
    /\ pc = "forward"
    /\ Len(records.features) + Len(features) <= MaxRecords
    /\ LET pairs == zip(features, audio_names)
       IN  records' =
             [features |-> records.features
                             \o [k \in 1..Len(pairs) |-> AsDouble(pairs[k][1])],
              audio_names |-> records.audio_names
                                \o <<pairs[Len(pairs)][2]>>]
    /\ batches' = Append(batches, [features |-> features,
                                   audio_names |-> audio_names])
    /\ UNCHANGED <<n_queries, num_workers, pc, futures, broken, snapshot, waiter,
                   completion, yielded, results, scores, score_thresh, score_min,
                   root, written, raised>>

\* forward(features, audio_names, records), lines 59-72.
Forward(features, audio_names) ==
    /\ pc = "forward"
    /\ Len(records.features) + Len(features) <= MaxRecords
    /\ LET pairs == zip(features, audio_names)
       IN  records' =
             [features |-> records.features
                             \o [k \in 1..Len(pairs) |-> AsDouble(pairs[k][1])],
              audio_names |-> records.audio_names
                                \o [k \in 1..Len(pairs) |-> pairs[k][2]]]
    /\ batches' = Append(batches, [features |-> features,
                                   audio_names |-> audio_names])
    /\ UNCHANGED <<n_queries, num_workers, pc, futures, broken, snapshot, waiter,
                   completion, yielded, results, scores, score_thresh, score_min,
                   root, written, raised>>

\* log_records(records) is called: the test set, whose first n_queries
\* items are the queries, has gone through forward.
LogRecords ==
    /\ pc = "forward"
    /\ n_queries <= Len(records.features)
    /\ pc' = "submit"
    /\ UNCHANGED <<batches, records, n_queries, num_workers, futures, broken,
                   snapshot, waiter, completion, yielded, results, scores,
                   score_thresh, score_min, root, written, raised>>

InitF ==
    /\ batches = <<>>
    /\ records = [features |-> <<>>, audio_names |-> <<>>]
    /\ n_queries \in 0..MaxRecords
    /\ num_workers \in 1..MaxWorkers
    /\ pc = "forward"
    /\ futures = <<>>
    /\ broken = FALSE
    /\ snapshot = {}
    /\ waiter = <<>>
    /\ completion = <<>>
    /\ yielded = <<>>
    /\ results = <<>>
    /\ scores = <<>>
    /\ score_thresh = NoValue
    /\ score_min = NoValue
    /\ root = <<>>
    /\ written = NoFile
    /\ raised = NoError

NextF ==
    \/ \E items \in SeqsUpTo(Items, MaxBatch) \ { <<>> } :
          Forward(Batch(items).features, Batch(items).audio_names)
    \/ LogRecords
    \/ Submit
    \/ \E i \in FutIdx : Start(i)
    \/ \E i \in FutIdx : Finish(i)
    \/ WorkerLost

SpecF == InitF /\ [][NextF]_vars

-----------------------------------------------------------------------------
(* Properties *)

\* The number of accumulated records.
NRecords == Len(records.features)

\* log_records has left the with block without an exception.
Collected == pc \in {"threshold", "build", "write", "done"}

Thresholded == pc \in {"build", "write", "done"}

YieldedOf(q, d) ==
    { k \in 1..Len(yielded) :
        futures[yielded[k]].qi = q /\ futures[yielded[k]].di = d }

RECURSIVE SumTerms(_, _)
SumTerms(res, k) == IF k = 0 THEN 0 ELSE Len(res[k].terms) + SumTerms(res, k - 1)

\* C1: with nonempty queries and documents and no failed unit, the
\* collection loop receives exactly |queries| x |documents| results, one
\* for each (query, document) pair, whatever the pool size and the order of
\* completion; each is appended to results and to scores.
C1_CrossProductOnce ==
    (Collected /\ NPairs > 0) =>
        /\ Len(yielded) = Len(queries) * Len(docs)
        /\ \A q \in 1..Len(queries), d \in 1..Len(docs) :
               Cardinality(YieldedOf(q, d)) = 1
        /\ \A k \in 1..Len(yielded) : futures[yielded[k]].outcome.ok
        /\ Len(scores) = Len(queries) * Len(docs)
        /\ SumTerms(results, Len(results)) = Len(queries) * Len(docs)

\* Two units on two workers, collected in the reverse of submission order.
C1_Witness ==
    /\ pc = "threshold"
    /\ num_workers = 2
    /\ yielded = <<2, 1>>
    /\ Len(scores) = 2

\* The score of pair (q, d), from the inputs alone.
PairScore(q, d) ==
    match(queries[q], docs[d],
          StripWav(query_names[q]), StripWav(doc_names[d])).score

\* The scores in submission order: the run in which every unit completes
\* and is collected in the order it was submitted.
SerialScores == [k \in 1..NPairs |-> PairScore(PairQ(k), PairD(k))]

\* The (doc_name, score) entries of a query name, from the inputs alone.
EntriesOf(name) ==
    { <<StripWav(doc_names[d]), PairScore(q, d)>> :
        q \in { x \in 1..Len(queries) : StripWav(query_names[x]) = name },
        d \in 1..Len(docs) }

TermSet(r) == { r.terms[j] : j \in 1..Len(r.terms) }

\* C2: a run that succeeds ends with the grouping and the threshold that
\* the inputs alone determine, whatever the order of completion and the
\* pool size: each query's list, as a set of (doc_name, score) entries, and
\* score_thresh and score_min are those of the serial run.
C2_OrderIndependent ==
    Thresholded =>
        /\ { results[k].termid : k \in 1..Len(results) }
              = { StripWav(query_names[q]) : q \in 1..Len(queries) }
        /\ \A k \in 1..Len(results) :
               TermSet(results[k]) = EntriesOf(results[k].termid)
        /\ \E serial \in { sorted(SerialScores) } :
               /\ score_thresh = serial[ThreshIndex(NPairs) + 1]
               /\ score_min = serial[1]

\* A finished run whose two units, of different scores, were collected in
\* the reverse of submission order.
C2_Witness ==
    /\ pc = "done"
    /\ yielded = <<2, 1>>
    /\ futures[1].outcome.score # futures[2].outcome.score

\* The positions of the report's term elements, and the raw score each
\* comes from: root is built from results position by position.
Built == pc \in {"write", "done"}

Positions(res) ==
    UNION { { <<k, j>> : j \in 1..Len(res[k].terms) } : k \in 1..Len(res) }

RawScore(p) == results[p[1]].terms[p[2]][2]
TermAt(p) == root[p[1]].terms[p[2]]

SameShape ==
    /\ Len(root) = Len(results)
    /\ \A k \in 1..Len(results) :
          /\ root[k].termid = results[k].termid
          /\ Len(root[k].terms) = Len(results[k].terms)

DecisionByRawScore ==
    \A p \in Positions(results) :
        /\ TermAt(p).decision \in {"YES", "NO"}
        /\ TermAt(p).decision = "YES" <=> RawScore(p) > score_thresh
        /\ RawScore(p) - score_min >= 0

\* C3 as stated: every report entry has decision YES iff its raw score is
\* strictly greater than score_thresh, and its reported score is exactly
\* score - score_min, which is never negative.
C3_ExactNormalizedScore ==
    Built =>
        /\ SameShape
        /\ DecisionByRawScore
        /\ \A p \in Positions(results) :
               10 * TermAt(p).score = RawScore(p) - score_min

\* C3 amended: every report entry has decision YES iff its raw score is
\* strictly greater than score_thresh (equal gives NO); its reported score
\* is score - score_min rounded to four decimals, so within 0.00005 of it,
\* and neither is negative.
C3_RoundedNormalizedScore ==
    Built =>
        /\ SameShape
        /\ DecisionByRawScore
        /\ \A p \in Positions(results) :
               /\ TermAt(p).score >= 0
               /\ 10 * TermAt(p).score - (RawScore(p) - score_min) \in -5..5

\* A written report with a YES entry, an entry whose raw score equals the
\* cutoff, and an entry whose normalized score is not a multiple of 0.0001.
C3_Witness ==
    /\ pc = "done"
    /\ \E p \in Positions(results) : TermAt(p).decision = "YES"
    /\ \E p \in Positions(results) : RawScore(p) = score_thresh
    /\ \E p \in Positions(results) : (RawScore(p) - score_min) % 10 # 0

Below(v) == { p \in Positions(results) : RawScore(p) < v }
AtMost(v) == { p \in Positions(results) : RawScore(p) <= v }

\* C4: for N >= 1 scores, score_thresh is the element at 0-based index
\* floor(0.99 N) of the ascending order of all scores (the index is within
\* the list; ties are taken as they fall) and score_min is their minimum.
C4_NearestRank ==
    Thresholded =>
        LET N == Cardinality(Positions(results))
        IN  /\ N = Len(scores)
            /\ \E idx \in 0..(N - 1) :
                  /\ 100 * idx <= 99 * N
                  /\ 99 * N < 100 * (idx + 1)
                  /\ Cardinality(Below(score_thresh)) <= idx
                  /\ idx < Cardinality(AtMost(score_thresh))
            /\ \E p \in Positions(results) : RawScore(p) = score_thresh
            /\ \E p \in Positions(results) : RawScore(p) = score_min
            /\ \A p \in Positions(results) : score_min <= RawScore(p)

\* More than 100 scores, the cutoff below the largest of them.
C4_Witness ==
    /\ pc = "build"
    /\ Len(scores) > 100
    /\ \E p \in Positions(results) : RawScore(p) > score_thresh

Failed(i) == futures[i].state = Finished /\ ~futures[i].outcome.ok

Succeeded(i) == futures[i].state = Finished /\ futures[i].outcome.ok

\* The tree in the file.
File == written[1]

\* The unit of future i has a term element in the file, under its query.
Included(i) ==
    \E p \in Positions(File) :
        /\ File[p[1]].termid = futures[i].query_name
        /\ File[p[1]].terms[p[2]].file = futures[i].doc_name
        /\ 10 * File[p[1]].terms[p[2]].score
              - (futures[i].outcome.score - score_min) \in -5..5

C6_FirstFailureFatal ==
    /\ \A i, j \in FutIdx :
          (futures[i].qi = futures[j].qi /\ futures[i].di = futures[j].di) => i = j
    /\ Len(futures) <= Len(queries) * Len(docs)
    /\ \A k \in 1..Len(yielded) :
          Failed(yielded[k]) =>
              /\ k = Len(yielded)
              /\ raised = futures[yielded[k]].outcome.exc
              /\ pc \in {"shutdown", "failed"}
              /\ Len(scores) = k - 1
              /\ SumTerms(results, Len(results)) = k - 1
              /\ score_thresh = NoValue
              /\ written = NoFile
    /\ pc = "failed" => raised # NoError

\* log_records has raised InvalidInput and the result of a unit that
\* succeeded was never collected.
C6_Witness ==
    /\ pc = "failed"
    /\ raised = InvalidInput
    /\ \E i \in FutIdx :
          /\ Succeeded(i)
          /\ \A k \in 1..Len(yielded) : yielded[k] # i

StartSome == \E i \in FutIdx : Start(i)

ZeroPairsInput == n_queries = 0 \/ n_queries >= NRecords

\* C8: with zero queries or zero documents the threshold step fails on the
\* empty score list (the IndexError of line 105 is the code's
\* InsufficientData), the failure ends the run, and no threshold, tree or
\* report is produced.
C8_EmptyScoresFatal ==
    ZeroPairsInput =>
        /\ pc \in {"submit", "collect", "threshold", "failed"}
        /\ pc = "threshold" => (scores = <<>> /\ ENABLED Threshold)
        /\ pc = "failed" <=> raised = IndexError
        /\ raised \in {NoError, IndexError}
        /\ score_thresh = NoValue /\ score_min = NoValue
        /\ root = <<>>
        /\ written = NoFile

\* Queries but no documents: the run has failed in the threshold step.
C8_Witness ==
    /\ pc = "failed"
    /\ raised = IndexError
    /\ n_queries > 0
    /\ n_queries = NRecords

\* C9: with zero queries or zero documents nothing is submitted, the
\* collection loop ends at once, results and scores stay empty, and the
\* with block is left without an exception.
C9_NoPairsNoWork ==
    ZeroPairsInput =>
        /\ futures = <<>> /\ yielded = <<>> /\ completion = <<>>
        /\ results = <<>> /\ scores = <<>>
        /\ pc = "submit" => ENABLED StartCollect
        /\ pc = "collect" => ENABLED EndCollect
        /\ pc # "shutdown"
        /\ pc \in {"submit", "collect", "threshold"} => raised = NoError

\* Documents but no queries: the with block has been left without error.
C9_Witness ==
    /\ pc = "threshold"
    /\ n_queries = 0
    /\ NRecords >= 2
    /\ raised = NoError

Keys(res) == { res[k].termid : k \in 1..Len(res) }

QueryKeys == { StripWav(query_names[q]) : q \in 1..Len(queries) }

\* C10 as stated: every query name is a key of results from before the
\* first result is aggregated until after aggregation, also when there are
\* no documents.
C10_KeysPrePopulated ==
    (pc = "collect" \/ Collected) => QueryKeys \subseteq Keys(results)

\* C10 amended: keys are not pre-populated.  The keys of results are the
\* query names (".wav" removed) of the results aggregated so far, each
\* once and with a nonempty list; after a run without failure and with
\* documents they are all the query names, and with no documents results
\* has no keys.
C10_KeysCreatedLazily ==
    /\ Keys(results) =
          { futures[yielded[k]].query_name :
              k \in { x \in 1..Len(yielded) : Succeeded(yielded[x]) } }
    /\ Cardinality(Keys(results)) = Len(results)
    /\ \A k \in 1..Len(results) : results[k].terms # <<>>
    /\ (Collected /\ Len(docs) > 0) => Keys(results) = QueryKeys
    /\ Len(docs) = 0 => results = <<>>

\* Two queries of different names against one document, both aggregated.
C10_Witness ==
    /\ pc = "threshold"
    /\ Len(queries) = 2
    /\ Len(results) = 2

PosIn(seq, x) == CHOOSE k \in 1..Len(seq) : seq[k] = x

OfQuery(name, i) == Succeeded(i) /\ futures[i].outcome.query_name = name

\* The (doc_name, score) entries of a query name in the order as_completed
\* yielded their futures.
EntriesInYieldOrder(name) ==
    LET sel == SelectSeq(yielded, LAMBDA i : OfQuery(name, i))
    IN  [k \in 1..Len(sel) |->
            <<futures[sel[k]].outcome.doc_name, futures[sel[k]].outcome.score>>]

ListsFollowYieldOrder ==
    \A k \in 1..Len(results) :
        results[k].terms = EntriesInYieldOrder(results[k].termid)

CompletedBefore(i, j) == PosIn(completion, i) < PosIn(completion, j)

\* C11 as stated: within each query's list the entries are in the order in
\* which their units completed, also for units that had completed before
\* the collection loop started.
C11_CompletionOrder ==
    /\ ListsFollowYieldOrder
    /\ \A a, b \in 1..Len(yielded) :
          (a < b /\ Succeeded(yielded[a]) /\ Succeeded(yielded[b])
             /\ futures[yielded[a]].query_name = futures[yielded[b]].query_name)
          => CompletedBefore(yielded[a], yielded[b])

\* C11 amended: within each query's list the entries are in the order in
\* which as_completed yielded their units: the units that had completed
\* before the collection loop started come first, in any order, and the
\* units that completed later follow them in completion order.
C11_YieldOrder ==
    /\ ListsFollowYieldOrder
    /\ \A a, b \in 1..Len(yielded) :
          a < b =>
              /\ yielded[b] \in snapshot => yielded[a] \in snapshot
              /\ yielded[b] \notin snapshot
                    => CompletedBefore(yielded[a], yielded[b])

\* Two units of one query, both completed before the loop started, the
\* second yielded first; a list of two entries.
C11_Witness ==
    /\ pc = "threshold"
    /\ completion = <<1, 2>>
    /\ snapshot = {1, 2}
    /\ yielded = <<2, 1>>
    /\ Len(results) = 1
    /\ Len(results[1].terms) = 2

YesEntries == { p \in Positions(results) : TermAt(p).decision = "YES" }

\* The scenario of two scores 0.0 and -2.0 for one query, and its report.
ExampleResults ==
    << [termid |-> GenQuery(1),
        terms |-> << <<GenDoc(1), 0>>, <<GenDoc(2), -200000>> >>] >>

ExampleReport ==
    << [termid |-> GenQuery(1),
        terms |-> << [file |-> GenDoc(1), score |-> 20000, decision |-> "NO"],
                     [file |-> GenDoc(2), score |-> 0, decision |-> "NO"] >>] >>

\* C12: with 1 <= N <= 100 scores score_thresh is the largest score and
\* every report entry is NO; for every N >= 1 at most N - 1 - floor(0.99 N)
\* entries are YES; the scores 0.0 and -2.0 give d1: 2.0000, NO and
\* d2: 0.0000, NO.
C12_SmallNAllNo ==
    Built =>
        LET N == Cardinality(Positions(results))
        IN  /\ N >= 1
            /\ N <= 100 =>
                  /\ \A p \in Positions(results) : RawScore(p) <= score_thresh
                  /\ \E p \in Positions(results) : RawScore(p) = score_thresh
                  /\ YesEntries = {}
            /\ \E idx \in 0..(N - 1) :
                  /\ 100 * idx <= 99 * N
                  /\ 99 * N < 100 * (idx + 1)
                  /\ Cardinality(YesEntries) <= N - 1 - idx
            /\ results = ExampleResults => root = ExampleReport

\* The report of the example scenario has been written.
C12_Witness ==
    /\ pc = "done"
    /\ results = ExampleResults
    /\ written = <<ExampleReport>>

UniqueNames(s) == \A i, j \in 1..Len(s) : s[i] = s[j] => i = j

\* C13: with names unique within the queries and within the documents, and
\* no failure, the report has exactly one detected_termlist per query, each
\* with exactly one term per document; removing ".wav" merges no two
\* queries into one entry and leaves the documents distinguishable.
C13_OneEntryPerQueryAndDocument ==
    (pc = "done" /\ UniqueNames(query_names) /\ UniqueNames(doc_names)) =>
        /\ Len(File) = Len(queries)
        /\ \A k \in 1..Len(File) : Len(File[k].terms) = Len(docs)
        /\ \A k, l \in 1..Len(File) : File[k].termid = File[l].termid => k = l
        /\ \A k \in 1..Len(File) : \A i, j \in 1..Len(File[k].terms) :
              File[k].terms[i].file = File[k].terms[j].file => i = j

\* Percentile parameters are taken on a grid: p = P / PercentileSteps for
\* P in 0..PercentileSteps - 1, so that 0 <= p < 1.
PercentileSteps == 100

\* floor(p * n) for p = P / PercentileSteps.
PIndex(P, n) == (P * n) \div PercentileSteps

\* The cutoff line 105 takes from the sorted scores for parameter P.
CutAt(P) == scores[PIndex(P, Len(scores)) + 1]

\* C14: for a nonempty score list and percentile parameters p <= p' in
\* [0, 1), the cutoff taken at floor(p N) of the sorted list is at most the
\* cutoff taken at floor(p' N); the cutoff of the fixed parameter 0.99 lies
\* between the minimum and the maximum score.
C14_ThresholdMonotonic ==
    Thresholded =>
        /\ Len(scores) >= 1
        /\ \A P1, P2 \in 0..(PercentileSteps - 1) :
              P1 <= P2 =>
                  /\ PIndex(P2, Len(scores)) < Len(scores)
                  /\ CutAt(P1) <= CutAt(P2)
        /\ score_thresh = scores[ThreshIndex(Len(scores)) + 1]
        /\ score_min <= score_thresh
        /\ \A p \in Positions(results) : score_min <= RawScore(p)
        /\ \E p \in Positions(results) : score_thresh <= RawScore(p)

\* More than 100 scores whose cutoff is strictly between minimum and maximum.
C14_Witness ==
    /\ pc = "build"
    /\ Len(scores) > 100
    /\ score_min < score_thresh
    /\ \E p \in Positions(results) : score_thresh < RawScore(p)
    /\ CutAt(0) < CutAt(50)

\* The positions of the accumulated records a work unit takes its query
\* and its document from.
QueryPos(i) == futures[i].qi
DocPos(i) == n_queries + futures[i].di

\* C15: the first n_queries accumulated items are the queries and all the
\* remaining items are the documents: every item has exactly one of the
\* two roles, none is dropped and none is used in both.
C15_PartitionByPosition ==
    /\ Len(queries) = Min(n_queries, NRecords)
    /\ Len(queries) + Len(docs) = NRecords
    /\ Len(query_names) = Len(queries)
    /\ Len(doc_names) = Len(docs)
    /\ \A i \in 1..NRecords :
          IF i <= n_queries
             THEN /\ queries[i] = records.features[i]
                  /\ query_names[i] = records.audio_names[i]
             ELSE /\ docs[i - n_queries] = records.features[i]
                  /\ doc_names[i - n_queries] = records.audio_names[i]
    /\ \A i \in FutIdx :
          /\ QueryPos(i) \in 1..Min(n_queries, NRecords)
          /\ DocPos(i) \in (n_queries + 1)..NRecords
          /\ futures[i].query = records.features[QueryPos(i)]
          /\ futures[i].doc = records.features[DocPos(i)]
    /\ (Len(futures) = NPairs /\ NPairs > 0) =>
          \A r \in 1..NRecords :
              /\ (\E i \in FutIdx : QueryPos(i) = r) <=> r <= n_queries
              /\ (\E i \in FutIdx : DocPos(i) = r) <=> r > n_queries

\* One query and two documents, both pairs submitted.
C15_Witness ==
    /\ pc = "collect"
    /\ n_queries = 1
    /\ NRecords = 3
    /\ Len(futures) = 2
    /\ QueryPos(1) = 1 /\ DocPos(1) = 2 /\ DocPos(2) = 3

RECURSIVE Presented(_)
\* The (feature, name) pairs of the first k batches, in the order forward
\* was given them.
Presented(k) ==
    IF k = 0 THEN <<>>
    ELSE Presented(k - 1) \o zip(batches[k].features, batches[k].audio_names)

\* C16: after any sequence of forward calls the two lists of records have
\* the same length and hold, position by position, the feature sequences
\* and the names in the order they were presented; every work unit carries
\* the features and the (stripped) names of one query position and one
\* document position, and a result reports those names with the negated
\* cost of aligning those features.
C16_NamesFollowFeatures ==
    LET P == Presented(Len(batches))
    IN  /\ Len(records.features) = Len(records.audio_names)
        /\ Len(records.features) = Len(P)
        /\ \A i \in 1..Len(P) :
              /\ records.features[i] = P[i][1]
              /\ records.audio_names[i] = P[i][2]
        /\ \A i \in FutIdx :
              /\ QueryPos(i) \in 1..n_queries
              /\ DocPos(i) \in (n_queries + 1)..Len(P)
              /\ futures[i].query = P[QueryPos(i)][1]
              /\ futures[i].query_name = StripWav(P[QueryPos(i)][2])
              /\ futures[i].doc = P[DocPos(i)][1]
              /\ futures[i].doc_name = StripWav(P[DocPos(i)][2])
              /\ Succeeded(i) =>
                    /\ futures[i].outcome.query_name = StripWav(P[QueryPos(i)][2])
                    /\ futures[i].outcome.doc_name = StripWav(P[DocPos(i)][2])
                    /\ futures[i].outcome.score
                          = (-1) * segmental_dtw(P[QueryPos(i)][1],
                                                 P[DocPos(i)][1]).cost

\* Two batches, of two items and of one, gave one query and two documents
\* whose two work units both returned a result.
C16_Witness ==
    /\ Len(batches) = 2
    /\ Len(batches[1].features) = 2
    /\ n_queries = 1
    /\ Len(futures) = 2
    /\ Succeeded(1)
    /\ Succeeded(2)
    /\ futures[1].outcome.doc_name # futures[2].outcome.doc_name

====
